---- MODULE Spec2Model ----
(***************************************************************************)
(* PSPLIB-Editor: the line scanner and record parser (FileParser), the     *)
(* PSPLIB decoder (_parse_psplib), the instance model with its lazily      *)
(* built derived indices (ProblemInstance) and the JSON encoder            *)
(* (ProblemInstanceJSONEncoder).                                           *)
(*                                                                         *)
(* A line of the text source is a sequence of lexical tokens (the fields   *)
(* the regular expressions separate by whitespace); a token is a string.   *)
(* The stream is produced as it is read: every read draws the next line    *)
(* from a bounded pool, so a behaviour fixes one input file.               *)
(***************************************************************************)
EXTENDS Integers, Sequences, FiniteSets, TLC

(***************************************************************************)
(* Bounds of the input files and of the instances explored.                *)
(***************************************************************************)
MaxJobs == 2

MaxAccesses == 3

MaxPrecedences == 2

MaxLines == 4

MaxSkip == 2

(***************************************************************************)
(* Helpers on sequences.                                                    *)
(***************************************************************************)
Range(s) == {s[k] : k \in DOMAIN s}

SeqsUpTo(S, n) == UNION {[1..m -> S] : m \in 0..n}

Min2(a, b) == IF a < b THEN a ELSE b

(***************************************************************************)
(* int(): the conversion of a matched \d+ token.                           *)
(***************************************************************************)
IntOf ==
    ("0" :> 0) @@ ("1" :> 1) @@ ("2" :> 2) @@ ("3" :> 3) @@ ("4" :> 4) @@
    ("5" :> 5) @@ ("6" :> 6) @@ ("7" :> 7) @@ ("8" :> 8) @@ ("9" :> 9)

IsDigits(tok) == tok \in DOMAIN IntOf

DigitsOf(n) == CHOOSE tok \in DOMAIN IntOf : IntOf[tok] = n

AllDigits(toks) == \A k \in DOMAIN toks : IsDigits(toks[k])

IntTuple(toks) == [k \in DOMAIN toks |-> IntOf[toks[k]]]

(***************************************************************************)
(* The regular expressions of _parse_psplib, by what they accept and what  *)
(* their capture groups hold.  A result is [matched, groups]; an optional  *)
(* group that took no part in the match (None) is the empty token list.    *)
(***************************************************************************)
NoMatch == [matched |-> FALSE, groups |-> <<>>]

KEY_PROJECTS == "projects"
KEY_JOBS == "jobs (incl. supersource/sink )"
KEY_HORIZON == "horizon"

pattern_keyvalue(key, l) ==
    IF Len(l) = 3 /\ l[1] = key /\ l[2] = ":" /\ IsDigits(l[3])
    THEN [matched |-> TRUE, groups |-> <<l[3]>>]
    ELSE NoMatch

pattern_resource_definition(resource, type, l) ==
    IF /\ Len(l) = 5
       /\ l[1] = "-" /\ l[2] = resource /\ l[3] = ":"
       /\ IsDigits(l[4]) /\ l[5] = type
    THEN [matched |-> TRUE, groups |-> <<l[4]>>]
    ELSE NoMatch

pattern_project(l) ==
    IF Len(l) = 6 /\ AllDigits(l)
    THEN [matched |-> TRUE, groups |-> <<l[1], l[4], l[5]>>]
    ELSE NoMatch

pattern_record(l) ==
    IF Len(l) >= 3 /\ AllDigits(l)
    THEN [matched |-> TRUE,
          groups |-> <<l[1], l[2], l[3], SubSeq(l, 4, Len(l))>>]
    ELSE NoMatch

IsResourceKey(tok) == tok \in {"R 1", "R 2", "N 1", "N 2", "D 1"}

pattern_resource_keys(l) ==
    IF /\ Len(l) >= 3
       /\ l[1] = "jobnr." /\ l[2] = "mode" /\ l[3] = "duration"
       /\ \A k \in 4..Len(l) : IsResourceKey(l[k])
    THEN [matched |-> TRUE, groups |-> <<SubSeq(l, 4, Len(l))>>]
    ELSE NoMatch

pattern_capacities(l) ==
    IF AllDigits(l)
    THEN [matched |-> TRUE, groups |-> <<l>>]
    ELSE NoMatch

(***************************************************************************)
(* The lines a read can return at each position of the section sequence.   *)
(***************************************************************************)
\* the job ids the records of the files use
Ids == {1, 2}

BadLines == {<<"x">>}

ProjectsPool == {<<KEY_PROJECTS, ":", DigitsOf(n)>> : n \in 0..2}

JobsPool == {<<KEY_JOBS, ":", DigitsOf(n)>> : n \in 0..MaxJobs}

HorizonPool == {<<KEY_HORIZON, ":", "5">>}

RenewablePool == {<<"-", "renewable", ":", DigitsOf(n), "R">> : n \in 0..2}

NonrenewablePool == {<<"-", "nonrenewable", ":", DigitsOf(n), "N">> : n \in 0..1}

DoublyPool == {<<"-", "doubly constrained", ":", DigitsOf(n), "D">> : n \in 0..1}

ProjectPool == {<<"1", "1", "0", "5", "0", "5">>}

SuccessorLists == {<<>>, <<"2", "1">>} \cup {<<DigitsOf(s)>> : s \in Ids}

PrecedencePool ==
    {<<DigitsOf(id), "1", DigitsOf(c)>> \o ss :
        id \in Ids, c \in 0..2, ss \in SuccessorLists}

KeyLists ==
    {<<>>, <<"R 1">>, <<"N 1">>, <<"D 1">>,
     <<"R 1", "N 1">>, <<"N 1", "R 1">>, <<"R 1", "R 1">>}

ResourceKeysPool == {<<"jobnr.", "mode", "duration">> \o ks : ks \in KeyLists}

ConsumptionLists == {<<>>, <<"2">>, <<"0", "1">>}

JobPool ==
    {<<DigitsOf(id), "1", d>> \o cs :
        id \in Ids, d \in {"3"}, cs \in ConsumptionLists}

CapacitiesPool == {<<"3">>, <<"3", "4">>}

SourceKinds == {"file", "StringIO"}

Names == {"j301_1.sm"}

(***************************************************************************)
(* State.                                                                   *)
(***************************************************************************)
VARIABLES
    source,         \* kind of the text source handed to parse_psplib
    name,           \* the name argument of parse_psplib
    eof,            \* the stream has reached its end
    cursor,         \* readline calls made on the stream (its position)
    linenum,        \* FileParser._linenum
    line,           \* the line the last parse_line read
    pc,             \* position of _parse_psplib
    raised,         \* the exception that ended the decode, if any
    project_count, job_count, horizon,
    renewable_resource_count, nonrenewable_resource_count,
    doubly_constrained_resource_count, num_resources,
    i,              \* iterations done of the current record loop
    precedences, resource_keys, jobs, capacities,
    instance,       \* the ProblemInstance (its name, horizon and collections)
    data_built, jobs_by_id, job_predecessors, job_successors,
    resources_by_key,
    builds,         \* runs of the build body of _build_data_if_needed
    accesses,       \* accessor calls made by clients of the instance
    returned,       \* the call a client made last and the value it returned
    written,        \* outcome of write_json
    json,           \* the object the encoder produced
    decoded,        \* the instance parse_json built from it
    thread_pc,      \* per thread: its position in an accessor call
    thread_accessor,    \* per thread: the accessor it is calling
    thread_index,   \* per thread: the loop index of its build
    thread_returned \* per thread: the map its last accessor call returned

streamVars == <<eof, cursor, linenum, line>>

infoVars ==
    <<project_count, job_count, horizon, renewable_resource_count,
      nonrenewable_resource_count, doubly_constrained_resource_count,
      num_resources>>

dataVars == <<i, precedences, resource_keys, jobs, capacities>>

modelVars ==
    <<instance, data_built, jobs_by_id, job_predecessors, job_successors,
      resources_by_key, builds, accesses, returned>>

jsonVars == <<written, json, decoded>>

threadVars == <<thread_pc, thread_accessor, thread_index, thread_returned>>

vars ==
    <<source, name, pc, raised, streamVars, infoVars, dataVars, modelVars, jsonVars,
      threadVars>>

NoError == [type |-> "none", filename |-> "", linenum |-> 0]

NoInstance == [none |-> TRUE]

NoJson == [none |-> TRUE]

NoReturn == [none |-> TRUE]

EmptyMap == <<>>

\* the threads of a client that shares one instance
Threads == {"t1", "t2"}

\* no thread has called an accessor
ThreadsIdle ==
    /\ thread_pc = [t \in Threads |-> "idle"]
    /\ thread_accessor = [t \in Threads |-> "none"]
    /\ thread_index = [t \in Threads |-> 0]
    /\ thread_returned = [t \in Threads |-> NoReturn]

(***************************************************************************)
(* FileParser                                                               *)
(***************************************************************************)
\* the name attribute of the source: an opened file has one, io.StringIO none
HasName(src) == src = "file"

\* FileParser.error: builds error_type(self._source.name, self._linenum, ...);
\* reading the missing attribute raises AttributeError instead
error(error_type, src, ln) ==
    IF HasName(src)
    THEN [type |-> error_type, filename |-> src, linenum |-> ln]
    ELSE [type |-> "AttributeError", filename |-> "", linenum |-> 0]

\* read_line and skip_lines over the stream: what count skipped lines followed
\* by one read line can give.  A line past the end of the stream is "".
Reads(pool) ==
    {[l |-> <<>>, eof |-> TRUE]} \cup
    (IF eof THEN {}
     ELSE {[l |-> x, eof |-> FALSE] : x \in pool \cup BadLines \cup {<<>>}})

\* skip_lines(count), count >= 0: count calls of read_line
Skips == IF eof THEN {TRUE} ELSE BOOLEAN

\* parse_line up to the converters: which check ends it
parse_line(match, ntypes) ==
    IF ~match.matched THEN "nomatch"
    ELSE IF ntypes # Len(match.groups) THEN "arity"
    ELSE "ok"

(***************************************************************************)
(* _parse_psplib                                                            *)
(***************************************************************************)
Init ==
    /\ source \in SourceKinds
    /\ name \in Names
    /\ eof = FALSE
    /\ cursor = 0
    /\ linenum = 0
    /\ line = <<>>
    /\ pc = "header"
    /\ raised = NoError
    /\ ThreadsIdle
    /\ project_count = 0 /\ job_count = 0 /\ horizon = 0
    /\ renewable_resource_count = 0 /\ nonrenewable_resource_count = 0
    /\ doubly_constrained_resource_count = 0 /\ num_resources = 0
    /\ i = 0
    /\ precedences = <<>> /\ resource_keys = <<>> /\ jobs = <<>>
    /\ capacities = <<>>
    /\ instance = NoInstance
    /\ data_built = FALSE
    /\ jobs_by_id = EmptyMap /\ job_predecessors = EmptyMap
    /\ job_successors = EmptyMap /\ resources_by_key = EmptyMap
    /\ builds = 0 /\ accesses = 0 /\ returned = NoReturn
    /\ written = "none" /\ json = NoJson /\ decoded = NoInstance

\* an exception leaves _parse_psplib from the position it has reached: nothing
\* is returned and nothing more of it runs
Raise(error_type, ln) ==
    /\ pc' = pc
    /\ raised' = error(error_type, source, ln)

\* Running without regard to an exception raised before
Running_regardless(at) == pc = at

\* _parse_psplib is at position at
Running(at) == pc = at /\ raised = NoError

\* lines 163-167: divider, two header lines, divider
Header ==
    /\ Running("header")
    /\ \E e \in Skips : eof' = e
    /\ linenum' = linenum + 4
    /\ cursor' = cursor + 4
    /\ pc' = "projects"
    /\ UNCHANGED <<threadVars, source, name, raised, line, infoVars, dataVars, modelVars, jsonVars>>

\* one parse_line(pattern_keyvalue(key), int) of the info block
KeyValue(at, key, pool, next) ==
    /\ Running(at)
    /\ \E r \in Reads(pool) :
        LET m == pattern_keyvalue(key, r.l) IN
        /\ eof' = r.eof
        /\ line' = r.l
        /\ linenum' = linenum + 1
        /\ cursor' = cursor + 1
        /\ IF parse_line(m, 1) # "ok"
           THEN /\ Raise("ParseError", linenum + 1)
                /\ UNCHANGED <<project_count, job_count, horizon>>
           ELSE /\ pc' = next
                /\ raised' = raised
                /\ project_count' = IF at = "projects" THEN IntOf[m.groups[1]] ELSE project_count
                /\ job_count' = IF at = "jobs" THEN IntOf[m.groups[1]] ELSE job_count
                /\ horizon' = IF at = "horizon" THEN IntOf[m.groups[1]] ELSE horizon
    /\ UNCHANGED <<threadVars, source, name, renewable_resource_count, nonrenewable_resource_count,
                   doubly_constrained_resource_count, num_resources,
                   dataVars, modelVars, jsonVars>>

\* line 168
ParseProjects == KeyValue("projects", KEY_PROJECTS, ProjectsPool, "jobs")

\* line 169
ParseJobCount == KeyValue("jobs", KEY_JOBS, JobsPool, "horizon")

\* line 170
ParseHorizon == KeyValue("horizon", KEY_HORIZON, HorizonPool, "renewable")

\* the checks of lines 176-179, made once the three resource counts are read
InfoCheck(projects, doubly) ==
    IF projects # 1 THEN "projects"
    ELSE IF doubly > 0 THEN "doubly"
    ELSE "ok"

\* one parse_line(pattern_resource_definition(resource, type), int), after
\* nskip skipped lines
ResourceDefinition(at, nskip, resource, type, pool, next) ==
    /\ Running(at)
    /\ \E r \in Reads(pool) :
        LET m == pattern_resource_definition(resource, type, r.l)
            n == IntOf[m.groups[1]]
        IN
        /\ eof' = r.eof
        /\ line' = r.l
        /\ linenum' = linenum + nskip + 1
        /\ cursor' = cursor + nskip + 1
        /\ IF parse_line(m, 1) # "ok"
           THEN /\ Raise("ParseError", linenum + nskip + 1)
                /\ UNCHANGED <<renewable_resource_count, nonrenewable_resource_count,
                               doubly_constrained_resource_count, num_resources>>
           ELSE /\ renewable_resource_count' =
                        IF at = "renewable" THEN n ELSE renewable_resource_count
                /\ nonrenewable_resource_count' =
                        IF at = "nonrenewable" THEN n ELSE nonrenewable_resource_count
                /\ doubly_constrained_resource_count' =
                        IF at = "doubly" THEN n ELSE doubly_constrained_resource_count
                /\ IF at # "doubly"
                   THEN pc' = next /\ raised' = raised /\ num_resources' = num_resources
                   ELSE IF InfoCheck(project_count, n) # "ok"
                   THEN /\ Raise("UnsupportedOperationError", linenum + nskip + 1)
                        /\ num_resources' = num_resources
                   ELSE /\ pc' = next
                        /\ raised' = raised
                        /\ num_resources' =
                             renewable_resource_count + nonrenewable_resource_count + n
    /\ UNCHANGED <<threadVars, source, name, project_count, job_count, horizon,
                   dataVars, modelVars, jsonVars>>

\* lines 171-172: the RESOURCES header line is skipped, then the renewable count
ParseRenewable ==
    ResourceDefinition("renewable", 1, "renewable", "R", RenewablePool, "nonrenewable")

\* line 173
ParseNonrenewable ==
    ResourceDefinition("nonrenewable", 0, "nonrenewable", "N", NonrenewablePool, "doubly")

\* lines 174-181: the doubly-constrained count, the two support checks,
\* num_resources
ParseDoubly ==
    ResourceDefinition("doubly", 0, "doubly constrained", "D", DoublyPool, "project_info")

\* lines 184-191: divider, two header lines, project_count (= 1) records
ProjectInformation ==
    /\ Running("project_info")
    /\ \E r \in Reads(ProjectPool) :
        LET m == pattern_project(r.l) IN
        /\ eof' = r.eof
        /\ line' = r.l
        /\ linenum' = linenum + 3 + 1
        /\ cursor' = cursor + 3 + 1
        /\ IF parse_line(m, 3) # "ok"
           THEN Raise("ParseError", linenum + 3 + 1)
           ELSE pc' = "precedences_header" /\ raised' = raised
    /\ UNCHANGED <<threadVars, source, name, infoVars, dataVars, modelVars, jsonVars>>

\* lines 194-196: divider, two header lines, precedences = []
PrecedencesHeader ==
    /\ Running("precedences_header")
    /\ \E e \in Skips : eof' = e
    /\ linenum' = linenum + 3
    /\ cursor' = cursor + 3
    /\ precedences' = <<>>
    /\ i' = 0
    /\ pc' = IF job_count = 0 THEN "resource_keys" ELSE "precedences"
    /\ UNCHANGED <<threadVars, source, name, raised, line, infoVars, resource_keys, jobs,
                   capacities, modelVars, jsonVars>>

\* lines 197-205: one iteration of the precedence loop
ParsePrecedence ==
    /\ Running("precedences")
    /\ \E r \in Reads(PrecedencePool) :
        LET m == pattern_record(r.l)
            job_id == IntOf[m.groups[1]]
            job_successor_count == IntOf[m.groups[3]]
            successors == IntTuple(m.groups[4])
        IN
        /\ eof' = r.eof
        /\ line' = r.l
        /\ linenum' = linenum + 1
        /\ cursor' = cursor + 1
        /\ IF parse_line(m, 4) # "ok"
           THEN Raise("ParseError", linenum + 1) /\ UNCHANGED <<i, precedences>>
           ELSE IF job_successor_count # Len(successors)
           THEN Raise("ParseError", linenum + 1) /\ UNCHANGED <<i, precedences>>
           ELSE /\ precedences' =
                     precedences \o [k \in 1..Len(successors) |-> <<job_id, successors[k]>>]
                /\ i' = i + 1
                /\ pc' = IF i + 1 = job_count THEN "resource_keys" ELSE pc
                /\ raised' = raised
    /\ UNCHANGED <<threadVars, source, name, infoVars, resource_keys, jobs, capacities,
                   modelVars, jsonVars>>

\* lines 208-215: divider, the REQUESTS/DURATIONS line, the key header line,
\* its count check, divider, jobs = []
ParseResourceKeys ==
    /\ Running("resource_keys")
    /\ \E r \in Reads(ResourceKeysPool) :
        LET m == pattern_resource_keys(r.l)
            keys == m.groups[1]
        IN
        /\ line' = r.l
        /\ IF parse_line(m, 1) # "ok"
           THEN /\ Raise("ParseError", linenum + 3)
                /\ linenum' = linenum + 3
                /\ cursor' = cursor + 3
                /\ eof' = r.eof
                /\ UNCHANGED <<i, resource_keys, jobs>>
           ELSE IF Len(keys) # num_resources
           THEN /\ Raise("ParseError", linenum + 3)
                /\ linenum' = linenum + 3
                /\ cursor' = cursor + 3
                /\ eof' = r.eof
                /\ UNCHANGED <<i, resource_keys, jobs>>
           ELSE /\ resource_keys' = keys
                /\ linenum' = linenum + 4
                /\ cursor' = cursor + 4
                /\ \E e \in (IF r.eof THEN {TRUE} ELSE BOOLEAN) : eof' = e
                /\ i' = 0
                /\ jobs' = <<>>
                /\ pc' = IF job_count = 0 THEN "availabilities" ELSE "durations"
                /\ raised' = raised
    /\ UNCHANGED <<threadVars, source, name, infoVars, precedences, capacities,
                   modelVars, jsonVars>>

\* lines 216-222: one iteration of the durations loop
ParseJob ==
    /\ Running("durations")
    /\ \E r \in Reads(JobPool) :
        LET m == pattern_record(r.l)
            job_id == IntOf[m.groups[1]]
            job_duration == IntOf[m.groups[3]]
            consumptions == IntTuple(m.groups[4])
        IN
        /\ eof' = r.eof
        /\ line' = r.l
        /\ linenum' = linenum + 1
        /\ cursor' = cursor + 1
        /\ IF parse_line(m, 4) # "ok"
           THEN Raise("ParseError", linenum + 1) /\ UNCHANGED <<i, jobs>>
           ELSE IF Len(consumptions) # num_resources
           THEN Raise("ParseError", linenum + 1) /\ UNCHANGED <<i, jobs>>
           ELSE /\ jobs' = Append(jobs, <<job_id, job_duration, consumptions>>)
                /\ i' = i + 1
                /\ pc' = IF i + 1 = job_count THEN "availabilities" ELSE pc
                /\ raised' = raised
    /\ UNCHANGED <<threadVars, source, name, infoVars, precedences, resource_keys, capacities,
                   modelVars, jsonVars>>

\* 'R' in key, 'N' in key, for the key tokens [RND]\s\d+
HasR(key) == key \in {"R 1", "R 2"}

HasN(key) == key \in {"N 1", "N 2"}

\* zip(a, b) stops at the shorter argument
ZipLen(a, b) == Min2(Len(a), Len(b))

\* build_job: the dict comprehension over zip(resource_keys, job_consumptions);
\* a repeated key keeps the value zipped with its last occurrence
build_job(job, keys) ==
    LET cons == job[3]
        n == ZipLen(keys, cons)
        last(key) == CHOOSE k \in 1..n :
                        keys[k] = key /\ \A k2 \in (k + 1)..n : keys[k2] # key
    IN [id |-> job[1],
        duration |-> job[2],
        consumption |-> [key \in {keys[k] : k \in 1..n} |-> cons[last(key)]]]

\* build_resource, for a key that holds 'R' or 'N'
build_resource(key, capacity) ==
    IF HasR(key)
    THEN [key |-> key, type |-> "Renewable", capacity |-> capacity]
    ELSE [key |-> key, type |-> "NonRenewable", initial_capacity |-> capacity]

\* the resources argument: one build_resource per pair of
\* zip(resource_keys, capacities)
build_resources(keys, caps) ==
    [k \in 1..ZipLen(keys, caps) |-> build_resource(keys[k], caps[k])]

\* some zipped key holds neither 'R' nor 'N': build_resource raises
UnrecognizedKey(keys, caps) ==
    \E k \in 1..ZipLen(keys, caps) : ~HasR(keys[k]) /\ ~HasN(keys[k])

\* Precedence with its two fields exchanged
Precedence_reversed(predecessor, successor) ==
    [predecessor |-> successor, successor |-> predecessor]

\* Precedence(predecessor, successor)
Precedence(predecessor, successor) ==
    [predecessor |-> predecessor, successor |-> successor]

\* ProblemInstance.__init__ as called on lines 244-250
ProblemInstance(nm, hor, js, ps, keys, caps) ==
    [name |-> nm,
     horizon |-> hor,
     jobs |-> [k \in DOMAIN js |-> build_job(js[k], keys)],
     precedences |-> [k \in DOMAIN ps |-> Precedence(ps[k][1], ps[k][2])],
     resources |-> build_resources(keys, caps)]

\* lines 225-251: divider, two header lines, the availabilities line, then the
\* assembly of the instance
ParseCapacities ==
    /\ Running("availabilities")
    /\ \E r \in Reads(CapacitiesPool) :
        LET m == pattern_capacities(r.l)
            caps == IntTuple(m.groups[1])
        IN
        /\ eof' = r.eof
        /\ line' = r.l
        /\ linenum' = linenum + 3 + 1
        /\ cursor' = cursor + 3 + 1
        /\ IF parse_line(m, 1) # "ok"
           THEN /\ Raise("ParseError", linenum + 3 + 1)
                /\ UNCHANGED <<capacities, instance>>
           ELSE /\ capacities' = caps
                /\ IF UnrecognizedKey(resource_keys, caps)
                   THEN /\ Raise("UnsupportedOperationError", linenum + 3 + 1)
                        /\ instance' = instance
                   ELSE /\ instance' = ProblemInstance(name, horizon, jobs, precedences,
                                                       resource_keys, caps)
                        /\ pc' = "done"
                        /\ raised' = raised
    /\ UNCHANGED <<threadVars, source, name, infoVars, i, precedences, resource_keys, jobs,
                   data_built, jobs_by_id, job_predecessors, job_successors,
                   resources_by_key, builds, accesses, returned, jsonVars>>

(***************************************************************************)
(* ProblemInstance: the derived indices                                     *)
(***************************************************************************)
\* map[key] = value on a dict
Put(map, key, value) ==
    [x \in DOMAIN map \cup {key} |-> IF x = key THEN value ELSE map[x]]

\* lines 142-144
RECURSIVE IndexJobs(_, _)
IndexJobs(js, map) ==
    IF js = <<>> THEN map
    ELSE IndexJobs(Tail(js), Put(map, Head(js).id, Head(js)))

\* AppendUnder with the list started afresh on every call
AppendUnder_overwrite(map, key, value) == Put(map, key, <<value>>)

\* AppendUnder that also files value as a key, under an empty list when new
AppendUnder_touching(map, key, value) ==
    LET list == IF key \in DOMAIN map THEN map[key] ELSE <<>>
        appended == Put(map, key, Append(list, value))
    IN IF value \in DOMAIN appended THEN appended ELSE Put(appended, value, <<>>)

\* lines 149-154: the list under key, created when the key is new, with value
\* appended
AppendUnder(map, key, value) ==
    LET list == IF key \in DOMAIN map THEN map[key] ELSE <<>>
    IN Put(map, key, Append(list, value))

\* lines 146-156
RECURSIVE ScanPrecedences(_, _, _)
ScanPrecedences(ps, preds, succs) ==
    IF ps = <<>>
    THEN [job_predecessors |-> preds, job_successors |-> succs]
    ELSE LET precedence == Head(ps) IN
         ScanPrecedences(Tail(ps),
                         AppendUnder(preds, precedence.successor, precedence.predecessor),
                         AppendUnder(succs, precedence.predecessor, precedence.successor))

\* lines 158-160
RECURSIVE IndexResources(_, _)
IndexResources(rs, map) ==
    IF rs = <<>> THEN map
    ELSE IndexResources(Tail(rs), Put(map, Head(rs).key, Head(rs)))

\* the guard of line 139 left out
BuildNeeded_always(built) == TRUE

\* the guard of lines 139-140
BuildNeeded(built) == ~built

\* _build_data_if_needed
build_data_if_needed ==
    IF BuildNeeded(data_built)
    THEN LET adj == ScanPrecedences(instance.precedences, EmptyMap, EmptyMap) IN
         /\ jobs_by_id' = IndexJobs(instance.jobs, EmptyMap)
         /\ job_predecessors' = adj.job_predecessors
         /\ job_successors' = adj.job_successors
         /\ resources_by_key' = IndexResources(instance.resources, EmptyMap)
         /\ data_built' = TRUE
         /\ builds' = builds + 1
    ELSE UNCHANGED <<jobs_by_id, job_predecessors, job_successors,
                     resources_by_key, data_built, builds>>

\* a derived accessor called by a client of the instance: the build if needed,
\* then the cached map is returned
Access(accessor) ==
    /\ instance # NoInstance
    /\ accesses < MaxAccesses
    /\ build_data_if_needed
    /\ accesses' = accesses + 1
    /\ returned' =
         [accessor |-> accessor,
          map |-> CASE accessor = "jobs_by_id" -> jobs_by_id'
                    [] accessor = "job_predecessors" -> job_predecessors'
                    [] accessor = "job_successors" -> job_successors'
                    [] accessor = "resources_by_key" -> resources_by_key']
    /\ UNCHANGED <<threadVars, source, name, pc, raised, streamVars, infoVars, dataVars,
                   instance, jsonVars>>

\* lines 118-121
AccessJobsById == Access("jobs_by_id")

\* lines 123-126
AccessJobPredecessors == Access("job_predecessors")

\* lines 128-131
AccessJobSuccessors == Access("job_successors")

\* lines 133-136
AccessResourcesByKey == Access("resources_by_key")

(***************************************************************************)
(* ProblemInstanceJSONEncoder                                               *)
(***************************************************************************)
\* the order of str on the resource keys
KeyRank == ("D 1" :> 1) @@ ("N 1" :> 2) @@ ("N 2" :> 3) @@ ("R 1" :> 4) @@ ("R 2" :> 5)

\* list.sort(key=...) and sorted(): a stable ascending sort of the items s by
\* their sort keys, keys[k] the key of s[k]
RECURSIVE Insert(_, _)
Insert(sorted, x) ==
    IF sorted = <<>> THEN <<x>>
    ELSE IF x.key < Head(sorted).key
         THEN <<x>> \o sorted
         ELSE <<Head(sorted)>> \o Insert(Tail(sorted), x)

RECURSIVE InsertAll(_, _)
InsertAll(sorted, rest) ==
    IF rest = <<>> THEN sorted
    ELSE InsertAll(Insert(sorted, Head(rest)), Tail(rest))

Sort(s, keys) ==
    LET keyed == [k \in DOMAIN s |-> [key |-> keys[k], item |-> s[k]]]
        sorted == InsertAll(<<>>, keyed)
    IN [k \in DOMAIN sorted |-> sorted[k].item]

\* _encode_resource
encode_resource(resource) ==
    [Key |-> resource.key,
     Type |-> resource.type,
     Capacity |-> IF resource.type = "Renewable"
                  THEN resource.capacity
                  ELSE resource.initial_capacity]

\* line 52: instance.job_successors[job.id] raises KeyError for a missing key
SuccessorsLookup(succs, id) ==
    IF id \in DOMAIN succs
    THEN [found |-> TRUE, list |-> succs[id]]
    ELSE [found |-> FALSE, list |-> <<>>]

\* _encode_job, given the job_successors map
encode_job(job, succs) ==
    [Id |-> job.id,
     Duration |-> job.duration,
     Resource_consumption |-> job.consumption,
     Successors |-> LET list == SuccessorsLookup(succs, job.id).list
                    IN Sort(list, list)]

\* default(): the instance object
encode_instance(inst, succs) ==
    [Name |-> inst.name,
     Horizon |-> inst.horizon,
     Resources |-> LET rs == [k \in DOMAIN inst.resources |->
                                 encode_resource(inst.resources[k])]
                   IN Sort(rs, [k \in DOMAIN rs |-> KeyRank[rs[k].Key]]),
     Jobs |-> LET js == [k \in DOMAIN inst.jobs |-> encode_job(inst.jobs[k], succs)]
              IN Sort(js, [k \in DOMAIN js |-> js[k].Id])]

\* some job makes line 52 raise
EncodeRaises(inst, succs) ==
    \E k \in DOMAIN inst.jobs : ~SuccessorsLookup(succs, inst.jobs[k].id).found

\* write_json(instance, target): json.dump with the encoder.  The resources are
\* encoded first; the first job encoded reads instance.job_successors, which
\* builds the derived data if needed.
WriteJson ==
    /\ instance # NoInstance
    /\ written = "none"
    /\ IF instance.jobs = <<>>
       THEN UNCHANGED <<jobs_by_id, job_predecessors, job_successors,
                        resources_by_key, data_built, builds>>
       ELSE build_data_if_needed
    /\ LET succs == IF instance.jobs = <<>> THEN job_successors ELSE job_successors' IN
       IF EncodeRaises(instance, succs)
       THEN written' = "KeyError" /\ json' = json
       ELSE written' = "ok" /\ json' = encode_instance(instance, succs)
    /\ UNCHANGED <<threadVars, source, name, pc, raised, streamVars, infoVars, dataVars,
                   instance, accesses, returned, decoded>>

(***************************************************************************)
(* parse_json: the decoder of the JSON shape.  Its code is not part of the *)
(* sources at hand (the tests import it from psplib_editor.parsing); it is *)
(* modelled from the documented shape: one Job per Jobs entry, one         *)
(* Precedence per (Id, successor) of its Successors, one Resource per      *)
(* Resources entry, of the kind its Type names.                            *)
(***************************************************************************)
RECURSIVE Flatten(_)
Flatten(ss) == IF ss = <<>> THEN <<>> ELSE Head(ss) \o Flatten(Tail(ss))

decode_resource(r) ==
    IF r.Type = "Renewable"
    THEN [key |-> r.Key, type |-> "Renewable", capacity |-> r.Capacity]
    ELSE [key |-> r.Key, type |-> "NonRenewable", initial_capacity |-> r.Capacity]

decode_instance(doc) ==
    [name |-> doc.Name,
     horizon |-> doc.Horizon,
     jobs |-> [k \in DOMAIN doc.Jobs |->
                 [id |-> doc.Jobs[k].Id,
                  duration |-> doc.Jobs[k].Duration,
                  consumption |-> doc.Jobs[k].Resource_consumption]],
     precedences |-> Flatten([k \in DOMAIN doc.Jobs |->
                        [n \in DOMAIN doc.Jobs[k].Successors |->
                            Precedence(doc.Jobs[k].Id, doc.Jobs[k].Successors[n])]]),
     resources |-> [k \in DOMAIN doc.Resources |-> decode_resource(doc.Resources[k])]]

\* parse_json on what write_json wrote
ParseJson ==
    /\ written = "ok"
    /\ decoded = NoInstance
    /\ decoded' = decode_instance(json)
    /\ UNCHANGED <<threadVars, source, name, pc, raised, streamVars, infoVars, dataVars,
                   modelVars, written, json>>

(***************************************************************************)
(* Specifications                                                           *)
(***************************************************************************)
\* parse_psplib on a text source, then write_json and parse_json on the
\* instance it returned
Next ==
    \/ Header
    \/ ParseProjects
    \/ ParseJobCount
    \/ ParseHorizon
    \/ ParseRenewable
    \/ ParseNonrenewable
    \/ ParseDoubly
    \/ ProjectInformation
    \/ PrecedencesHeader
    \/ ParsePrecedence
    \/ ParseResourceKeys
    \/ ParseJob
    \/ ParseCapacities
    \/ WriteJson
    \/ ParseJson

Spec == Init /\ [][Next]_vars

\* instances a client constructs directly (ProblemInstance.__init__, lines
\* 104-116), with build_data or without, then reads through the accessors and
\* writes with write_json
ModelJobs ==
    {[id |-> id, duration |-> d, consumption |-> ("R 1" :> 2)] :
        id \in Ids, d \in {0, 3}}

ModelPrecedences == {Precedence(p, s) : p \in Ids, s \in Ids}

ModelResources ==
    {<<>>,
     <<build_resource("R 1", 3)>>,
     <<build_resource("R 1", 3), build_resource("N 1", 4)>>}

Instances ==
    {[name |-> nm, horizon |-> 5, jobs |-> js, precedences |-> ps, resources |-> rs] :
        nm \in Names,
        js \in SeqsUpTo(ModelJobs, MaxJobs),
        ps \in SeqsUpTo(ModelPrecedences, MaxPrecedences),
        rs \in ModelResources}

ModelInit ==
    /\ source = "file"
    /\ name \in Names
    /\ eof = FALSE
    /\ cursor = 0
    /\ linenum = 0
    /\ line = <<>>
    /\ pc = "constructed"
    /\ raised = NoError
    /\ ThreadsIdle
    /\ project_count = 0 /\ job_count = 0 /\ horizon = 0
    /\ renewable_resource_count = 0 /\ nonrenewable_resource_count = 0
    /\ doubly_constrained_resource_count = 0 /\ num_resources = 0
    /\ i = 0
    /\ precedences = <<>> /\ resource_keys = <<>> /\ jobs = <<>>
    /\ capacities = <<>>
    /\ instance \in Instances
    /\ \E build_data \in BOOLEAN :
        LET adj == ScanPrecedences(instance.precedences, EmptyMap, EmptyMap) IN
        /\ data_built = build_data
        /\ builds = IF build_data THEN 1 ELSE 0
        /\ jobs_by_id = IF build_data THEN IndexJobs(instance.jobs, EmptyMap) ELSE EmptyMap
        /\ job_predecessors = IF build_data THEN adj.job_predecessors ELSE EmptyMap
        /\ job_successors = IF build_data THEN adj.job_successors ELSE EmptyMap
        /\ resources_by_key =
             IF build_data THEN IndexResources(instance.resources, EmptyMap) ELSE EmptyMap
    /\ accesses = 0 /\ returned = NoReturn
    /\ written = "none" /\ json = NoJson /\ decoded = NoInstance

ModelNext ==
    \/ AccessJobsById
    \/ AccessJobPredecessors
    \/ AccessJobSuccessors
    \/ AccessResourcesByKey
    \/ WriteJson

ModelSpec == ModelInit /\ [][ModelNext]_vars

\* a client that drives a FileParser directly: init on a text source, then
\* read_line, skip_lines and parse_line calls in any order
ParserPatterns == {"keyvalue", "record"}

ParserLines ==
    {<<KEY_PROJECTS, ":", "1">>, <<KEY_PROJECTS, ":", "1", "x">>,
     <<"1", "1", "1", "2">>, <<"1", "1", "1", "x">>}

\* lines 122-125: re.fullmatch, or re.match (a match of a prefix of the line)
\* when fullmatch is false.  The prefix match of the record pattern leaves its
\* optional group out of the match: the \s* before it takes the white space
\* the group would need.
Match(pattern, l, fullmatch) ==
    LET head == SubSeq(l, 1, 3) IN
    CASE pattern = "keyvalue" /\ fullmatch -> pattern_keyvalue(KEY_PROJECTS, l)
      [] pattern = "keyvalue" /\ ~fullmatch ->
            IF Len(l) >= 3 THEN pattern_keyvalue(KEY_PROJECTS, head) ELSE NoMatch
      [] pattern = "record" /\ fullmatch -> pattern_record(l)
      [] pattern = "record" /\ ~fullmatch ->
            IF Len(l) >= 3 THEN pattern_record(head) ELSE NoMatch

\* lines 139-145: the converters applied to the groups (int, and the tuple of
\* ints for the list group of a record); one value when types is no sequence
Converted(pattern, groups) ==
    IF pattern = "keyvalue" THEN IntOf[groups[1]]
    ELSE <<IntOf[groups[1]], IntOf[groups[2]], IntOf[groups[3]], IntTuple(groups[4])>>

ParserInit ==
    /\ source \in SourceKinds
    /\ name \in Names
    /\ eof = FALSE
    /\ cursor = 0
    /\ linenum = 0
    /\ line = <<>>
    /\ pc = "idle"
    /\ raised = NoError
    /\ ThreadsIdle
    /\ project_count = 0 /\ job_count = 0 /\ horizon = 0
    /\ renewable_resource_count = 0 /\ nonrenewable_resource_count = 0
    /\ doubly_constrained_resource_count = 0 /\ num_resources = 0
    /\ i = 0
    /\ precedences = <<>> /\ resource_keys = <<>> /\ jobs = <<>>
    /\ capacities = <<>>
    /\ instance = NoInstance
    /\ data_built = FALSE
    /\ jobs_by_id = EmptyMap /\ job_predecessors = EmptyMap
    /\ job_successors = EmptyMap /\ resources_by_key = EmptyMap
    /\ builds = 0 /\ accesses = 0 /\ returned = NoReturn
    /\ written = "none" /\ json = NoJson /\ decoded = NoInstance

\* read_line with a counter that stays where it is once the stream has ended
ReadLine_stalling ==
    /\ Running("idle")
    /\ cursor < MaxLines
    /\ \E r \in Reads(ParserLines) :
        /\ eof' = r.eof
        /\ line' = line
        /\ returned' = [call |-> "read_line", text |-> r.l]
    /\ cursor' = cursor + 1
    /\ linenum' = IF eof THEN linenum ELSE linenum + 1
    /\ UNCHANGED <<threadVars, source, name, pc, raised, infoVars, dataVars, instance,
                   data_built, jobs_by_id, job_predecessors, job_successors,
                   resources_by_key, builds, accesses, jsonVars>>

\* read_line
ReadLine ==
    /\ Running("idle")
    /\ cursor < MaxLines
    /\ \E r \in Reads(ParserLines) :
        /\ eof' = r.eof
        /\ line' = line
        /\ returned' = [call |-> "read_line", text |-> r.l]
    /\ cursor' = cursor + 1
    /\ linenum' = linenum + 1
    /\ UNCHANGED <<threadVars, source, name, pc, raised, infoVars, dataVars, instance,
                   data_built, jobs_by_id, job_predecessors, job_successors,
                   resources_by_key, builds, accesses, jsonVars>>

\* skip_lines(count)
SkipLinesBy(count) ==
    /\ Running("idle")
    /\ cursor + count <= MaxLines
    /\ IF count < 0
       THEN /\ raised' = error("UnsupportedOperationError", source, linenum)
            /\ pc' = "skip_lines"
            /\ UNCHANGED <<eof, cursor, linenum>>
       ELSE /\ \E e \in (IF count = 0 THEN {eof} ELSE Skips) : eof' = e
            /\ cursor' = cursor + count
            /\ linenum' = linenum + count
            /\ UNCHANGED <<pc, raised>>
    /\ UNCHANGED <<threadVars, source, name, line, infoVars, dataVars, modelVars, jsonVars>>

SkipCounts == (0 - 1)..MaxSkip

SkipLines == \E count \in SkipCounts : SkipLinesBy(count)

\* parse_line(pattern, types, fullmatch), types holding ntypes converters
ParseLineWith(pattern, ntypes, fullmatch) ==
    /\ Running("idle")
    /\ cursor < MaxLines
    /\ \E r \in Reads(ParserLines) :
        LET m == Match(pattern, r.l, fullmatch)
            outcome == parse_line(m, ntypes)
        IN
        /\ eof' = r.eof
        /\ line' = r.l
        /\ IF outcome = "ok"
           THEN /\ returned' = IF ntypes = 1
                                THEN [call |-> "parse_line",
                                      value |-> Converted(pattern, m.groups)]
                                ELSE [call |-> "parse_line",
                                      values |-> Converted(pattern, m.groups)]
                /\ UNCHANGED <<pc, raised>>
           ELSE /\ raised' = error("ParseError", source, linenum + 1)
                /\ pc' = "parse_line:" \o outcome
                /\ returned' = returned
    /\ cursor' = cursor + 1
    /\ linenum' = linenum + 1
    /\ UNCHANGED <<threadVars, source, name, infoVars, dataVars, instance,
                   data_built, jobs_by_id, job_predecessors, job_successors,
                   resources_by_key, builds, accesses, jsonVars>>

TypeCounts == {1, 4}

ParseLine ==
    \E pattern \in ParserPatterns, ntypes \in TypeCounts, fullmatch \in BOOLEAN :
        ParseLineWith(pattern, ntypes, fullmatch)

ParserNext ==
    \/ ReadLine
    \/ SkipLines
    \/ ParseLine

ParserSpec == ParserInit /\ [][ParserNext]_vars

(***************************************************************************)
(* Two threads that share one instance and call its derived accessors.     *)
(* Nothing in ProblemInstance takes a lock, so the threads interleave      *)
(* between the statements of _build_data_if_needed.  The two adjacency     *)
(* maps are filled in locals of the call and assigned when complete; the   *)
(* other two maps are reset on the instance and filled in place.           *)
(***************************************************************************)
Accessors == {"jobs_by_id", "job_predecessors", "job_successors", "resources_by_key"}

\* the instances the threads share
RaceInstances ==
    {[name |-> nm, horizon |-> 5, jobs |-> js, precedences |-> ps, resources |-> rs] :
        nm \in Names,
        js \in {<<[id |-> 1, duration |-> 0, consumption |-> ("R 1" :> 2)],
                  [id |-> 2, duration |-> 3, consumption |-> ("R 1" :> 2)]>>},
        ps \in {<<>>, <<Precedence(1, 2)>>},
        rs \in {<<build_resource("R 1", 3)>>,
                <<build_resource("R 1", 3), build_resource("N 1", 4)>>}}

\* what happens to everything but the instance's derived data and the threads
raceFrame ==
    <<source, name, pc, raised, streamVars, infoVars, dataVars, instance,
      returned, jsonVars>>

\* the attribute an accessor returns (lines 121, 126, 131, 136)
MapOf(accessor) ==
    CASE accessor = "jobs_by_id" -> jobs_by_id
      [] accessor = "job_predecessors" -> job_predecessors
      [] accessor = "job_successors" -> job_successors
      [] accessor = "resources_by_key" -> resources_by_key

RaceInit ==
    /\ source = "file"
    /\ name \in Names
    /\ eof = FALSE
    /\ cursor = 0
    /\ linenum = 0
    /\ line = <<>>
    /\ pc = "shared"
    /\ raised = NoError
    /\ ThreadsIdle
    /\ project_count = 0 /\ job_count = 0 /\ horizon = 0
    /\ renewable_resource_count = 0 /\ nonrenewable_resource_count = 0
    /\ doubly_constrained_resource_count = 0 /\ num_resources = 0
    /\ i = 0
    /\ precedences = <<>> /\ resource_keys = <<>> /\ jobs = <<>>
    /\ capacities = <<>>
    /\ instance \in RaceInstances
    /\ \E build_data \in BOOLEAN :
        LET adj == ScanPrecedences(instance.precedences, EmptyMap, EmptyMap) IN
        /\ data_built = build_data
        /\ builds = IF build_data THEN 1 ELSE 0
        /\ jobs_by_id = IF build_data THEN IndexJobs(instance.jobs, EmptyMap) ELSE EmptyMap
        /\ job_predecessors = IF build_data THEN adj.job_predecessors ELSE EmptyMap
        /\ job_successors = IF build_data THEN adj.job_successors ELSE EmptyMap
        /\ resources_by_key =
             IF build_data THEN IndexResources(instance.resources, EmptyMap) ELSE EmptyMap
    /\ accesses = 0 /\ returned = NoReturn
    /\ written = "none" /\ json = NoJson /\ decoded = NoInstance

\* thread t moves from position from to position to
Goes(t, from, to) ==
    /\ thread_pc[t] = from
    /\ thread_pc' = [thread_pc EXCEPT ![t] = to]

\* a thread reads a derived accessor: the property calls _build_data_if_needed
Call(t) ==
    /\ accesses < MaxAccesses
    /\ Goes(t, "idle", "guard")
    /\ \E accessor \in Accessors :
         thread_accessor' = [thread_accessor EXCEPT ![t] = accessor]
    /\ accesses' = accesses + 1
    /\ UNCHANGED <<raceFrame, data_built, jobs_by_id, job_predecessors, job_successors,
                   resources_by_key, builds, thread_index, thread_returned>>

\* CheckBuilt that goes on to the build body whatever the flag says
CheckBuilt_always(t) ==
    /\ Goes(t, "guard", "reset_jobs")
    /\ builds' = builds + 1
    /\ UNCHANGED <<raceFrame, data_built, jobs_by_id, job_predecessors, job_successors,
                   resources_by_key, accesses, thread_accessor, thread_index,
                   thread_returned>>

\* lines 139-140: the test of the flag
CheckBuilt(t) ==
    /\ IF BuildNeeded(data_built)
       THEN Goes(t, "guard", "reset_jobs") /\ builds' = builds + 1
       ELSE Goes(t, "guard", "return") /\ builds' = builds
    /\ UNCHANGED <<raceFrame, data_built, jobs_by_id, job_predecessors, job_successors,
                   resources_by_key, accesses, thread_accessor, thread_index,
                   thread_returned>>

\* line 142
ResetJobs(t) ==
    /\ Goes(t, "reset_jobs", "fill_jobs")
    /\ jobs_by_id' = EmptyMap
    /\ thread_index' = [thread_index EXCEPT ![t] = 1]
    /\ UNCHANGED <<raceFrame, data_built, job_predecessors, job_successors,
                   resources_by_key, builds, accesses, thread_accessor, thread_returned>>

\* lines 143-144: one iteration of the loop, or its end
FillJobs(t) ==
    /\ thread_pc[t] = "fill_jobs"
    /\ IF thread_index[t] <= Len(instance.jobs)
       THEN LET job == instance.jobs[thread_index[t]] IN
            /\ jobs_by_id' = Put(jobs_by_id, job.id, job)
            /\ thread_index' = [thread_index EXCEPT ![t] = @ + 1]
            /\ thread_pc' = thread_pc
       ELSE /\ thread_pc' = [thread_pc EXCEPT ![t] = "assign_predecessors"]
            /\ UNCHANGED <<jobs_by_id, thread_index>>
    /\ UNCHANGED <<raceFrame, data_built, job_predecessors, job_successors,
                   resources_by_key, builds, accesses, thread_accessor, thread_returned>>

\* lines 146-155: the scan into the two local dicts, then the first assignment
AssignPredecessors(t) ==
    /\ Goes(t, "assign_predecessors", "assign_successors")
    /\ job_predecessors' =
         ScanPrecedences(instance.precedences, EmptyMap, EmptyMap).job_predecessors
    /\ UNCHANGED <<raceFrame, data_built, jobs_by_id, job_successors,
                   resources_by_key, builds, accesses, thread_accessor, thread_index,
                   thread_returned>>

\* line 156
AssignSuccessors(t) ==
    /\ Goes(t, "assign_successors", "reset_resources")
    /\ job_successors' =
         ScanPrecedences(instance.precedences, EmptyMap, EmptyMap).job_successors
    /\ UNCHANGED <<raceFrame, data_built, jobs_by_id, job_predecessors,
                   resources_by_key, builds, accesses, thread_accessor, thread_index,
                   thread_returned>>

\* line 158
ResetResources(t) ==
    /\ Goes(t, "reset_resources", "fill_resources")
    /\ resources_by_key' = EmptyMap
    /\ thread_index' = [thread_index EXCEPT ![t] = 1]
    /\ UNCHANGED <<raceFrame, data_built, jobs_by_id, job_predecessors, job_successors,
                   builds, accesses, thread_accessor, thread_returned>>

\* lines 159-160: one iteration of the loop, or its end
FillResources(t) ==
    /\ thread_pc[t] = "fill_resources"
    /\ IF thread_index[t] <= Len(instance.resources)
       THEN LET resource == instance.resources[thread_index[t]] IN
            /\ resources_by_key' = Put(resources_by_key, resource.key, resource)
            /\ thread_index' = [thread_index EXCEPT ![t] = @ + 1]
            /\ thread_pc' = thread_pc
       ELSE /\ thread_pc' = [thread_pc EXCEPT ![t] = "set_flag"]
            /\ UNCHANGED <<resources_by_key, thread_index>>
    /\ UNCHANGED <<raceFrame, data_built, jobs_by_id, job_predecessors, job_successors,
                   builds, accesses, thread_accessor, thread_returned>>

\* line 162
SetFlag(t) ==
    /\ Goes(t, "set_flag", "return")
    /\ data_built' = TRUE
    /\ UNCHANGED <<raceFrame, jobs_by_id, job_predecessors, job_successors,
                   resources_by_key, builds, accesses, thread_accessor, thread_index,
                   thread_returned>>

\* the return statement of the accessor: the attribute as it is now
Return(t) ==
    /\ Goes(t, "return", "idle")
    /\ thread_returned' =
         [thread_returned EXCEPT ![t] = [accessor |-> thread_accessor[t],
                                         map |-> MapOf(thread_accessor[t])]]
    /\ UNCHANGED <<raceFrame, data_built, jobs_by_id, job_predecessors, job_successors,
                   resources_by_key, builds, accesses, thread_accessor, thread_index>>

RaceNext ==
    \E t \in Threads :
        \/ Call(t)
        \/ CheckBuilt(t)
        \/ ResetJobs(t)
        \/ FillJobs(t)
        \/ AssignPredecessors(t)
        \/ AssignSuccessors(t)
        \/ ResetResources(t)
        \/ FillResources(t)
        \/ SetFlag(t)
        \/ Return(t)

RaceSpec == RaceInit /\ [][RaceNext]_vars

(***************************************************************************)
(* Properties                                                               *)
(***************************************************************************)
Returned == pc = "done"

Failed == raised # NoError

DeclaredResources == renewable_resource_count + nonrenewable_resource_count

KeysOf(resources) == [k \in DOMAIN resources |-> resources[k].key]

Count(s, x) == Cardinality({k \in DOMAIN s : s[k] = x})

IsAscending(s) == \A a, b \in DOMAIN s : a < b => s[a] <= s[b]

\* the availabilities line has been read by parse_line
AvailabilitiesRead == Returned \/ (pc = "availabilities" /\ Failed)

\* C1: a successful decode returns an instance that holds exactly the declared
\* number of resources (renewable + nonrenewable count), one per key of the key
\* header line; an availabilities line whose number of integers differs from
\* the declared count makes the decode fail with ParseError.
C1_DeclaredResourceCount ==
    /\ Returned =>
         /\ Len(instance.resources) = DeclaredResources
         /\ KeysOf(instance.resources) = resource_keys
    /\ (/\ AvailabilitiesRead
        /\ pattern_capacities(line).matched
        /\ Len(line) # DeclaredResources)
         => raised.type = "ParseError"

\* the ids an instance mentions
IdsOf(inst) ==
    {inst.jobs[k].id : k \in DOMAIN inst.jobs}
    \cup {inst.precedences[k].predecessor : k \in DOMAIN inst.precedences}
    \cup {inst.precedences[k].successor : k \in DOMAIN inst.precedences}

\* C2: encoding any instance succeeds and gives one Jobs entry per job, sorted
\* by Id, whose Successors is the ascending list of the job's successor ids
\* (the empty list for a job without successors).
C2_EncodeSucceeds ==
    written # "none" =>
        /\ written = "ok"
        /\ Len(json.Jobs) = Len(instance.jobs)
        /\ \A id \in IdsOf(instance) :
             Count([k \in DOMAIN json.Jobs |-> json.Jobs[k].Id], id)
               = Count([k \in DOMAIN instance.jobs |-> instance.jobs[k].id], id)
        /\ IsAscending([k \in DOMAIN json.Jobs |-> json.Jobs[k].Id])
        /\ \A k \in DOMAIN json.Jobs :
             /\ IsAscending(json.Jobs[k].Successors)
             /\ \A s \in IdsOf(instance) :
                  Count(json.Jobs[k].Successors, s)
                    = Count(instance.precedences, Precedence(json.Jobs[k].Id, s))

SameInstance(a, b) ==
    /\ a.name = b.name
    /\ a.horizon = b.horizon
    /\ Range(a.jobs) = Range(b.jobs)
    /\ Range(a.precedences) = Range(b.precedences)
    /\ Range(a.resources) = Range(b.resources)

\* C3: for every instance the PSPLIB decoder returns, encoding it to the JSON
\* shape and decoding that back gives an instance with the same name, horizon,
\* job set, precedence set and resource set.
C3_RoundTrip ==
    /\ written # "KeyError"
    /\ decoded # NoInstance => SameInstance(instance, decoded)

\* a record line whose third field differs from the number of integers after it
CountMismatch(l) == pattern_record(l).matched /\ IntOf[l[3]] # Len(l) - 3

\* C4: a precedence record whose successor count differs from the length of
\* its successor list (a positive count with no list included) fails the decode
\* with ParseError at that record, and neither that record nor a later one
\* adds a Precedence.
C4_SuccessorCountMismatch ==
    [][/\ (Running("precedences") /\ CountMismatch(line')) =>
            /\ raised'.type = "ParseError"
            /\ raised'.linenum = linenum'
            /\ precedences' = precedences
       /\ Failed => (precedences' = precedences /\ instance' = NoInstance)]_vars

\* the projects line has been parsed
ProjectsParsed == pc \notin {"header", "projects"}

\* C5: when the info block declares a projects count other than 1 the decode
\* fails with UnsupportedOperation, whatever the lines after the projects line
\* hold: it gets no further than the info block and fails with no other error.
C5_ProjectsRejected ==
    (ProjectsParsed /\ project_count # 1) =>
        /\ pc \in {"jobs", "horizon", "renewable", "nonrenewable", "doubly"}
        /\ Failed => raised.type = "UnsupportedOperationError"

\* C6: with a well-formed info block, projects = 1 and a doubly-constrained
\* count above 0, the decode fails with UnsupportedOperation before any line
\* of a later section is read.
C6_DoublyRejected ==
    (ProjectsParsed /\ project_count = 1 /\ doubly_constrained_resource_count > 0) =>
        /\ pc = "doubly"
        /\ raised.type = "UnsupportedOperationError"
        /\ linenum = 11
        /\ instance = NoInstance

\* C7: the decode fails with ParseError when the key header line holds a
\* number of resource keys other than the total resource count, and when a
\* job record of the durations section holds a consumption list of another
\* length than the total resource count.
C7_ResourceCountMismatch ==
    [][/\ (/\ Running("resource_keys")
           /\ pattern_resource_keys(line').matched
           /\ Len(line') - 3 # num_resources)
            => raised'.type = "ParseError"
       /\ (/\ Running("durations")
           /\ pattern_record(line').matched
           /\ Len(line') - 3 # num_resources)
            => raised'.type = "ParseError"]_vars

\* the ids a derived adjacency map mentions
MapIds(map) == DOMAIN map \cup UNION {Range(map[k]) : k \in DOMAIN map}

\* C8: once the derived indices are built, (p, s) is a Precedence of the
\* instance if and only if s is in job_successors[p], and if and only if p is
\* in job_predecessors[s].
C8_DerivedIndexConsistency ==
    data_built =>
        \A p, s \in IdsOf(instance) \cup MapIds(job_successors) \cup MapIds(job_predecessors) :
            LET backed == Precedence(p, s) \in Range(instance.precedences)
                inSuccessors == p \in DOMAIN job_successors /\ s \in Range(job_successors[p])
                inPredecessors == s \in DOMAIN job_predecessors /\ p \in Range(job_predecessors[s])
            IN (backed <=> inSuccessors) /\ (backed <=> inPredecessors)

\* an accessor built the indices of an instance where one job has two
\* different successors
C8_Witness ==
    /\ data_built
    /\ returned # NoReturn
    /\ returned.accessor = "job_successors"
    /\ \E p \in DOMAIN job_successors : Cardinality(Range(job_successors[p])) = 2

DerivedMaps == <<jobs_by_id, job_predecessors, job_successors, resources_by_key>>

CachedMap(accessor, maps) ==
    CASE accessor = "jobs_by_id" -> maps[1]
      [] accessor = "job_predecessors" -> maps[2]
      [] accessor = "job_successors" -> maps[3]
      [] accessor = "resources_by_key" -> maps[4]

\* C9: the build body runs at most once per instance: the first accessor call
\* runs it, every later call leaves the build count and the four maps as they
\* are and returns the cached map.
C9_BuiltOnce ==
    [][/\ builds' <= 1
       /\ data_built =>
            (data_built' /\ builds' = builds /\ DerivedMaps' = DerivedMaps)
       /\ accesses' > accesses =>
            /\ data_built'
            /\ builds' = 1
            /\ returned'.map = CachedMap(returned'.accessor, DerivedMaps')]_vars

\* a third accessor call on an instance built by the first one
C9_Witness ==
    /\ accesses >= 3
    /\ builds = 1
    /\ returned # NoReturn
    /\ returned.accessor = "resources_by_key"
    /\ DOMAIN resources_by_key # {}
    /\ DOMAIN jobs_by_id # {}

\* C10: in a returned instance every resource key of every job's consumption
\* map is the key of exactly one resource of the instance, and every resource
\* of the instance has an entry in every job's consumption map.
C10_ConsumptionKeys ==
    Returned =>
        \A k \in DOMAIN instance.jobs :
            LET consumption == instance.jobs[k].consumption IN
            /\ \A key \in DOMAIN consumption :
                 Count(KeysOf(instance.resources), key) = 1
            /\ \A r \in DOMAIN instance.resources :
                 instance.resources[r].key \in DOMAIN consumption

\* C11: in a returned instance the predecessor and the successor of every
\* Precedence, and every id that is a key or a member in job_successors and
\* job_predecessors, is a key of jobs_by_id (the id of a job of the instance).
C11_IdsAreJobs ==
    Returned =>
        LET jobIds == DOMAIN IndexJobs(instance.jobs, EmptyMap) IN
        /\ \A k \in DOMAIN instance.precedences :
             /\ instance.precedences[k].predecessor \in jobIds
             /\ instance.precedences[k].successor \in jobIds
        /\ data_built =>
             /\ DOMAIN jobs_by_id = jobIds
             /\ MapIds(job_successors) \cup MapIds(job_predecessors) \subseteq DOMAIN jobs_by_id

\* the positions of _parse_psplib whose next step reads a record with
\* parse_line
RecordPositions ==
    {"projects", "jobs", "horizon", "renewable", "nonrenewable", "doubly",
     "project_info", "precedences", "resource_keys", "durations", "availabilities"}

\* the step reads the record of the current position past the end of the
\* stream: read_line gave the empty string
ReadsPastEnd ==
    /\ pc \in RecordPositions
    /\ Running(pc)
    /\ cursor' > cursor
    /\ eof'
    /\ line' = <<>>

\* C12: at every record position of the section sequence, when the stream has
\* ended before the record is read, the empty line read there is rejected by
\* the record's pattern and the decode fails with ParseError.
C12_EndOfStreamRejected ==
    [][ReadsPastEnd =>
          /\ raised'.type = "ParseError"
          /\ raised'.linenum = linenum'
          /\ pc' = pc
          /\ instance' = NoInstance]_vars

\* C13: every failure of the decode is an UnsupportedOperation or a ParseError
\* that carries the name of the source and the current line number, for a file
\* opened from a path and for an open text stream without a name alike.
C13_FailureCarriesNameAndLine ==
    Failed =>
        /\ raised.type \in {"ParseError", "UnsupportedOperationError"}
        /\ raised.filename # ""
        /\ raised.linenum = linenum

\* C14: skip_lines(n) with n >= 0 reads and discards exactly n lines and
\* advances the line counter by exactly n; with n < 0 it fails with
\* UnsupportedOperation and leaves the stream position and the line counter as
\* they were.
C14_SkipLines ==
    [][\A n \in SkipCounts :
         SkipLinesBy(n) =>
            IF n >= 0
            THEN /\ raised' = NoError
                 /\ cursor' = cursor + n
                 /\ linenum' = linenum + n
                 /\ UNCHANGED <<line, returned>>
            ELSE /\ raised'.type = "UnsupportedOperationError"
                 /\ UNCHANGED <<cursor, linenum, eof>>]_vars

\* C15: when the pattern does not match the line parse_line has just read
\* (the whole line, or a prefix of it when fullmatch is false), parse_line
\* fails with ParseError at the 1-based number of that line; the failure is
\* raised by the no-match check, ahead of the arity check and the converters,
\* and the line stays consumed.
C15_NoMatchIsParseError ==
    [][\A pattern \in ParserPatterns, ntypes \in TypeCounts, fullmatch \in BOOLEAN :
         (ParseLineWith(pattern, ntypes, fullmatch)
            /\ ~Match(pattern, line', fullmatch).matched) =>
            /\ raised'.type = "ParseError"
            /\ raised'.linenum = cursor + 1
            /\ linenum' = linenum + 1
            /\ cursor' = cursor + 1
            /\ pc' = "parse_line:nomatch"
            /\ returned' = returned]_vars

\* the (key, capacity) pairs of the assembly: the keys of the key header line
\* paired in order with the integers of the availabilities line
Pairs == 1..Min2(Len(resource_keys), Len(line))

\* C16: on assembly each (key, capacity) pair becomes a Renewable resource
\* with that capacity when the key holds 'R', a NonRenewable resource with
\* that initial_capacity when it holds 'N'; when a key holds neither (a 'D'
\* key) the decode fails with UnsupportedOperation and returns no instance.
C16_ResourceKinds ==
    /\ Returned =>
         /\ DOMAIN instance.resources = Pairs
         /\ \A k \in Pairs :
              LET resource == instance.resources[k] IN
              /\ resource.key = resource_keys[k]
              /\ resource_keys[k] \in {"R 1", "R 2"} =>
                   (resource.type = "Renewable" /\ resource.capacity = IntOf[line[k]])
              /\ resource_keys[k] \in {"N 1", "N 2"} =>
                   (/\ resource.type = "NonRenewable"
                    /\ resource.initial_capacity = IntOf[line[k]])
    /\ (/\ AvailabilitiesRead
        /\ pattern_capacities(line).matched
        /\ \E k \in Pairs : resource_keys[k] = "D 1")
         => (raised.type = "UnsupportedOperationError" /\ instance = NoInstance)

\* the Job the assembly is to build from the k-th record of the durations
\* section, the record being <<id, duration, consumption list>>
JobOfRecord(inst, k) ==
    LET job == inst.jobs[k] IN
    /\ job.id = jobs[k][1]
    /\ job.duration = jobs[k][2]
    /\ \A n \in DOMAIN resource_keys :
         /\ resource_keys[n] \in DOMAIN job.consumption
         /\ job.consumption[resource_keys[n]] = jobs[k][3][n]

JobsAssembled ==
    Returned =>
        /\ Len(instance.jobs) = job_count
        /\ Len(jobs) = job_count
        /\ \A k \in DOMAIN instance.jobs : JobOfRecord(instance, k)
        /\ instance.horizon = horizon
        /\ instance.name = name

\* C17: a successful decode returns an instance with exactly job_count Jobs,
\* one per record of the durations section in file order, each with the id and
\* the duration of its record and a consumption map that sends the i-th key of
\* the key header line to the i-th integer of the record's consumption list;
\* the instance carries the parsed horizon and the given name.
C17_JobsAssembled ==
    [][/\ (Running("durations") /\ cursor' > cursor /\ raised' = NoError) =>
            jobs' = Append(jobs, <<IntOf[line'[1]], IntOf[line'[3]],
                                   IntTuple(SubSeq(line', 4, Len(line')))>>)
       /\ JobsAssembled']_vars

\* some Precedence of the instance has id as its predecessor / its successor
IsPredecessor(inst, id) ==
    \E k \in DOMAIN inst.precedences : inst.precedences[k].predecessor = id

IsSuccessor(inst, id) ==
    \E k \in DOMAIN inst.precedences : inst.precedences[k].successor = id

\* C18: an id is a key of job_successors exactly when some Precedence has it
\* as predecessor, and a key of job_predecessors exactly when some Precedence
\* has it as successor; a job without such a precedence is absent from the map
\* and no key is mapped to an empty collection.
C18_AbsentNotEmpty ==
    data_built =>
        /\ \A id \in IdsOf(instance) \cup DOMAIN job_successors \cup DOMAIN job_predecessors :
             /\ id \in DOMAIN job_successors <=> IsPredecessor(instance, id)
             /\ id \in DOMAIN job_predecessors <=> IsSuccessor(instance, id)
        /\ \A id \in DOMAIN job_successors : job_successors[id] # <<>>
        /\ \A id \in DOMAIN job_predecessors : job_predecessors[id] # <<>>

\* the indices were built on first access for an instance where one job (a
\* source) has a successor and no predecessor and another job (a sink) has a
\* predecessor and no successor
C18_Witness ==
    /\ data_built
    /\ returned # NoReturn
    /\ returned.accessor = "job_predecessors"
    /\ \E a, b \in {instance.jobs[k].id : k \in DOMAIN instance.jobs} :
         /\ a \in DOMAIN job_successors /\ a \notin DOMAIN job_predecessors
         /\ b \notin DOMAIN job_successors /\ b \in DOMAIN job_predecessors

\* C19: a failure aborts the whole decode where it is detected: no instance,
\* not even a partial one, is returned, and once the decode has failed no
\* further line is read and the line counter no longer changes.
C19_FailureAborts ==
    [][/\ Failed' => instance' = NoInstance
       /\ (~Failed /\ Failed') => pc' = pc
       /\ Failed =>
            /\ raised' = raised
            /\ UNCHANGED <<pc, cursor, linenum, eof, line>>]_vars

\* the decode failed in the durations section, after precedences and a job
\* record had been collected
C19_Witness ==
    /\ Failed
    /\ pc = "durations"
    /\ precedences # <<>>
    /\ jobs # <<>>
    /\ instance = NoInstance

\* the list a derived adjacency map holds for id (none when id is no key)
ListOf(map, id) == IF id \in DOMAIN map THEN map[id] ELSE <<>>

\* the (job_id, successor) pairs of a record of the precedence section, in the
\* order of the record
PairsOfRecord(l) == [k \in 1..IntOf[l[3]] |-> <<IntOf[l[1]], IntOf[l[3 + k]]>>]

PrecedencesAssembled ==
    Returned =>
        /\ Len(instance.precedences) = Len(precedences)
        /\ \A k \in DOMAIN precedences :
             /\ instance.precedences[k].predecessor = precedences[k][1]
             /\ instance.precedences[k].successor = precedences[k][2]
        /\ data_built =>
             \A p, s \in Ids :
                /\ Count(ListOf(job_successors, p), s) = Count(precedences, <<p, s>>)
                /\ Count(ListOf(job_predecessors, s), p) = Count(precedences, <<p, s>>)

\* C20: in a successful decode each (job_id, successor) pair of the precedence
\* section becomes exactly one Precedence, in file order: every record adds
\* as many Precedences as its successor count says, and a repeated pair stays
\* a repeated Precedence and a repeated entry of the adjacency lists.
C20_PrecedencesInFileOrder ==
    [][/\ (Running("precedences") /\ cursor' > cursor /\ raised' = NoError) =>
            /\ precedences' = precedences \o PairsOfRecord(line')
            /\ Len(precedences') = Len(precedences) + IntOf[line'[3]]
       /\ PrecedencesAssembled']_vars

\* a returned instance, its indices built, whose precedence section held the
\* same pair twice
C20_Witness ==
    /\ Returned
    /\ data_built
    /\ Len(instance.precedences) = 3
    /\ \E p, s \in Ids :
         /\ p # s
         /\ Count(precedences, <<p, s>>) = 2
         /\ Count(ListOf(job_successors, p), s) = 2

\* C21: after init the line counter equals the number of lines requested
\* from the stream so far: read_line adds exactly 1, parse_line adds exactly 1
\* whether it succeeds or fails, skip_lines(n) with n >= 0 adds n; a read past
\* the end of the stream returns the empty string without failing and still
\* advances the counter.
C21_LineCounter ==
    [][/\ linenum = cursor => linenum' = cursor'
       /\ ReadLine =>
            /\ linenum' = linenum + 1
            /\ raised' = NoError
            /\ eof => (returned'.text = <<>> /\ eof')
       /\ \A pattern \in ParserPatterns, ntypes \in TypeCounts, fullmatch \in BOOLEAN :
            ParseLineWith(pattern, ntypes, fullmatch) => linenum' = linenum + 1
       /\ \A n \in SkipCounts :
            (n >= 0 /\ SkipLinesBy(n)) => linenum' = linenum + n]_vars

\* read_line was called at the end of the stream and returned the empty
\* string: the counter stands at the number of requests made
C21_Witness ==
    /\ eof
    /\ returned # NoReturn
    /\ returned.call = "read_line"
    /\ returned.text = <<>>
    /\ raised = NoError
    /\ linenum = cursor
    /\ linenum = MaxLines

\* the four maps a finished build of the instance leaves
CompleteMaps ==
    LET adj == ScanPrecedences(instance.precedences, EmptyMap, EmptyMap) IN
    <<IndexJobs(instance.jobs, EmptyMap), adj.job_predecessors, adj.job_successors,
      IndexResources(instance.resources, EmptyMap)>>

\* a build has finished and no thread is inside the build body
Settled ==
    /\ data_built
    /\ \A t \in Threads : thread_pc[t] \in {"idle", "guard", "return"}

\* C22: nothing orders the threads inside _build_data_if_needed.  Once a build
\* has finished with no thread left inside the body (in particular when the
\* instance was built before it was shared), no concurrent access runs the
\* build again or changes a map, and every accessor returns the complete map;
\* the build count is otherwise only bounded by the number of threads.  The
\* witness is the race itself: the body has run twice and an accessor has
\* returned a jobs_by_id map that the other thread had reset and not refilled.
C22_UnsynchronizedBuild ==
    [][/\ builds' <= Cardinality(Threads)
       /\ Settled =>
            /\ Settled'
            /\ builds' = builds
            /\ DerivedMaps' = DerivedMaps
            /\ DerivedMaps = CompleteMaps
            /\ \A t \in Threads :
                 Return(t) =>
                   thread_returned'[t].map =
                     CachedMap(thread_returned'[t].accessor, CompleteMaps)]_vars

C22_Witness ==
    /\ builds = 2
    /\ \E t \in Threads :
        /\ thread_returned[t] # NoReturn
        /\ thread_returned[t].accessor = "jobs_by_id"
        /\ thread_returned[t].map # IndexJobs(instance.jobs, EmptyMap)
        /\ \E u \in Threads \ {t} : thread_pc[u] = "fill_jobs"

\* the sections of the file in the order the decoder goes through them
Sections ==
    <<"header", "projects", "jobs", "horizon", "renewable", "nonrenewable", "doubly",
      "project_info", "precedences_header", "precedences", "resource_keys",
      "durations", "availabilities", "done">>

SectionRank(at) == CHOOSE k \in DOMAIN Sections : Sections[k] = at

\* the number of lines read when the decoder arrives at a position
LinesBefore(at) ==
    CASE at = "header" -> 0
      [] at = "projects" -> 4
      [] at = "jobs" -> 5
      [] at = "horizon" -> 6
      [] at = "renewable" -> 7
      [] at = "nonrenewable" -> 9
      [] at = "doubly" -> 10
      [] at = "project_info" -> 11
      [] at = "precedences_header" -> 15
      [] at = "precedences" -> 18 + i
      [] at = "resource_keys" -> 18 + job_count
      [] at = "durations" -> 22 + job_count + i
      [] at = "availabilities" -> 22 + 2 * job_count
      [] at = "done" -> 26 + 2 * job_count

\* C23: a successful decode has read exactly 26 + 2 * job_count lines, the
\* sections are gone through in the fixed order with the line counts that
\* order gives, no line is read once the availabilities line was parsed, and
\* a failure of the projects or doubly-constrained check is reported with
\* line number 11.
C23_LinesRead ==
    [][/\ SectionRank(pc') >= SectionRank(pc)
       /\ linenum' >= linenum
       /\ cursor' = linenum'
       /\ (pc' # pc) => linenum' = LinesBefore(pc)'
       /\ Returned' => linenum' = 26 + 2 * job_count'
       /\ Returned => linenum' = linenum
       /\ (Failed' /\ pc' = "doubly") =>
            /\ linenum' = 11
            /\ raised'.linenum = 11]_vars

\* the number of resources of a kind in the returned instance
ResourcesOfType(type) ==
    Cardinality({k \in DOMAIN instance.resources : instance.resources[k].type = type})

\* C24: every returned instance holds as many Renewable resources as the info
\* block declares renewable, and as many NonRenewable resources as it
\* declares nonrenewable.
C24_DeclaredKinds ==
    Returned =>
        /\ ResourcesOfType("Renewable") = renewable_resource_count
        /\ ResourcesOfType("NonRenewable") = nonrenewable_resource_count

\* C24, the kinds alone: a returned instance with as many resources as the
\* info block declares in total, of which one declared renewable is
\* NonRenewable
C24_KindsExchanged ==
    /\ Returned
    /\ Len(instance.resources) = DeclaredResources
    /\ ResourcesOfType("Renewable") < renewable_resource_count
    /\ ResourcesOfType("NonRenewable") > nonrenewable_resource_count

====
